---------------------------- MODULE Spec2Model ----------------------------
(***************************************************************************)
(* State-machine model of src/run.py (class TradingBot and its entry       *)
(* point).                                                                 *)
(*                                                                         *)
(* Numbers.  Prices are integers counted in half points, so the            *)
(* instrument's point is 2 units and every product with 0.5, 1.5 or 2.5    *)
(* the code forms is exact on the even prices used here.  Volumes are      *)
(* counted in hundredths of a lot (the code rounds to 2 decimals).         *)
(* Floating point NaN and +infinity are the two reserved values NaN and    *)
(* Inf; every arithmetic and comparison operator below treats them the     *)
(* way IEEE-754 / numpy does (a comparison with NaN is false).             *)
(*                                                                         *)
(* Environment.  MetaTrader5 is an external collaborator: what its calls   *)
(* return (bars, ticks, symbol and account information, open positions,    *)
(* order results) is drawn at the call from the sets of an "envelope"      *)
(* record, one envelope per specification.                                 *)
(***************************************************************************)
EXTENDS Integers, Sequences, FiniteSets, TLC

VARIABLES
    pc,          \* where the program is: main, run, check, manage, signals, trade, sleep, backoff, exit, crashed
    session,     \* the MT5 session: none, login (opened with credentials), existing (no login made)
    symIdx,      \* check_market_conditions: index of the next symbol to analyse
    conditions,  \* run(): the conditions dict of this cycle, symbol -> (timeframe -> condition)
    mgr,         \* the frame of this cycle's manage_positions call: snapshot, ticks, calls made
    signals,     \* run(): the signals dict of this cycle, symbol -> order type
    todo,        \* run(): symbols of signals.items() not yet handed to place_trade
    orders,      \* requests that reached mt5.order_send in this cycle, in order, each with the
                 \* reply it got and, for a deal, the symbol and account information read for it
    fault,       \* the exception caught by run()'s except clause in this cycle, or "none"
    slept,       \* duration of the last time.sleep
    rows,        \* the latest rows get_market_structure gave this cycle, symbol -> (timeframe -> row)
    lastInit,    \* the MetaTrader5 calls of the last initialize() and what it returned
    account      \* the broker's account: the positions opened by this program's filled orders

vars == <<pc, session, symIdx, conditions, mgr, signals, todo, orders, fault, slept,
          rows, lastInit, account>>

-----------------------------------------------------------------------------
(* Floating point values *)

NaN == -1000000
Inf == 1000000

IsNaN(x) == x = NaN
Finite(x) == x # NaN /\ x # Inf

Lt(a, b) == a # NaN /\ b # NaN /\ a < b
Gt(a, b) == Lt(b, a)

Add(a, b) == IF a = NaN \/ b = NaN THEN NaN
             ELSE IF a = Inf \/ b = Inf THEN Inf ELSE a + b
Sub(a, b) == IF a = NaN \/ b = NaN THEN NaN
             ELSE IF a = Inf THEN Inf ELSE a - b
Abs(a) == IF a = NaN \/ a = Inf THEN a ELSE IF a < 0 THEN -a ELSE a

\* a * (m10 / 10) for a decimal multiplier given in tenths; exact on even a
MulTenths(a, m10) == IF a = NaN \/ a = Inf THEN a ELSE (a * m10) \div 10

\* builtin min(a, b) / max(a, b): the first argument unless the second compares smaller / larger
PyMin(a, b) == IF Lt(b, a) THEN b ELSE a
PyMax(a, b) == IF Gt(b, a) THEN b ELSE a

\* n/d for d > 0, n >= 0, rounded to the nearest integer, ties to even (round(x, 2) on hundredths)
RoundHalfEven(n, d) ==
    LET q == n \div d
        r == n % d
    IN  IF 2 * r < d THEN q
        ELSE IF 2 * r > d THEN q + 1
        ELSE IF q % 2 = 0 THEN q ELSE q + 1

-----------------------------------------------------------------------------
(* Program constants *)

Symbols == <<"EURUSDm", "GBPUSDm">>
SymSet == {Symbols[i] : i \in 1..Len(Symbols)}
Timeframes == <<"fast", "medium", "slow">>
TFSet == {"fast", "medium", "slow"}
\* instance attributes set by __init__
Attrs == {"symbols", "risk_percentage", "max_positions", "timeframes"}
risk_percentage == 1
max_positions == 3

ORDER_TYPE_BUY == "BUY"
ORDER_TYPE_SELL == "SELL"
TRADE_RETCODE_DONE == "DONE"

sl_multiplier == 15
tp_multiplier == 25
RsiLow == 30
RsiHigh == 70
MinProfitPips == 50
FallbackLot == 1

\* symbol_info(symbol).point, in price units
Point == 2


-----------------------------------------------------------------------------
(* Values returned by the MetaTrader5 collaborator *)

\* get_market_structure's result: None when copy_rates_from_pos returns None, else the
\* indicator values of the latest row df.iloc[-1]; "empty" is a frame without rows.
Row(s20, s50, s200, r, a) ==
    [rates |-> "bars", sma20 |-> s20, sma50 |-> s50, sma200 |-> s200, rsi |-> r, atr |-> a]
NoRates == [rates |-> "none", sma20 |-> NaN, sma50 |-> NaN, sma200 |-> NaN, rsi |-> NaN, atr |-> NaN]
EmptyRates == [rates |-> "empty", sma20 |-> NaN, sma50 |-> NaN, sma200 |-> NaN, rsi |-> NaN, atr |-> NaN]

\* symbol_info_tick(symbol): None, or a tick with its bid
NoTick == [present |-> FALSE, bid |-> NaN]
Tick(b) == [present |-> TRUE, bid |-> b]

\* symbol_info(symbol): None, or the symbol's quote and trading limits
NoInfo == [present |-> FALSE, bid |-> NaN, ask |-> NaN, trade_tick_value |-> 0, digits |-> 4,
           volume_min |-> 0, volume_max |-> 0]
Info(b, a, tv, dg, vmin, vmax) ==
    [present |-> TRUE, bid |-> b, ask |-> a, trade_tick_value |-> tv, digits |-> dg,
     volume_min |-> vmin, volume_max |-> vmax]

\* account_info(): None, or the account with its balance
NoAccount == [present |-> FALSE, balance |-> 0]
Account(b) == [present |-> TRUE, balance |-> b]

\* positions_get(): None, or the tuple of open positions of the account
NoPositions == [present |-> FALSE, list |-> <<>>]
Positions(l) == [present |-> TRUE, list |-> l]
Position(tk, sym, ty, open, s, t) ==
    [ticket |-> tk, symbol |-> sym, type |-> ty, price_open |-> open, sl |-> s, tp |-> t]

\* order_send(request): None, or a result with its retcode
Replies == {TRADE_RETCODE_DONE, "REJECTED", "None"}

-----------------------------------------------------------------------------
(* State after construction: the entry point has built the bot (lines 279)  *)

NoFrame == [called |-> FALSE, snapshot |-> NoPositions, ticks |-> [s \in SymSet |-> NoTick],
            mods |-> <<>>, raised |-> "none"]

\* no call of initialize has been made yet
NoCall == [initialize |-> "notcalled", login |-> "notcalled", account_info |-> "notcalled",
           returned |-> FALSE]

Init ==
    /\ pc = "main"
    /\ session = "none"
    /\ symIdx = 1
    /\ conditions = [s \in {} |-> 0]
    /\ mgr = NoFrame
    /\ signals = [s \in {} |-> 0]
    /\ todo = <<>>
    /\ orders = <<>>
    /\ fault = "none"
    /\ slept = 0
    /\ rows = [s \in {} |-> 0]
    /\ lastInit = NoCall
    /\ account = <<>>

-----------------------------------------------------------------------------
(* initialize (lines 30-60) *)

\* mutant: the result of mt5.account_info() is not checked
InitializeResultUnchecked(creds, initOk, loginOk, acctOk) ==
    IF ~initOk THEN [ok |-> FALSE, session |-> "none"]
    ELSE IF creds /\ ~loginOk THEN [ok |-> FALSE, session |-> "existing"]
    ELSE [ok |-> TRUE, session |-> IF creds THEN "login" ELSE "existing"]

\* The session left by initialize(login, password, server) and what it returns.
\* initOk, loginOk, acctOk: whether mt5.initialize(), mt5.login() and mt5.account_info() succeed.
InitializeResult(creds, initOk, loginOk, acctOk) ==
    IF ~initOk THEN [ok |-> FALSE, session |-> "none"]
    ELSE IF creds /\ ~loginOk THEN [ok |-> FALSE, session |-> "existing"]
    ELSE IF ~acctOk THEN [ok |-> FALSE, session |-> IF creds THEN "login" ELSE "existing"]
    ELSE [ok |-> TRUE, session |-> IF creds THEN "login" ELSE "existing"]

\* The MetaTrader5 calls one initialize made and how each ended: login is skipped without
\* credentials, and a call after a failed one is not reached.
InitializeCalls(creds, initOk, loginOk, acctOk) ==
    [initialize |-> IF initOk THEN "ok" ELSE "failed",
     login |-> IF ~initOk THEN "notreached"
               ELSE IF ~creds THEN "skipped"
               ELSE IF loginOk THEN "ok" ELSE "refused",
     account_info |-> IF ~initOk \/ (creds /\ ~loginOk) THEN "notreached"
                      ELSE IF acctOk THEN "ok" ELSE "none",
     returned |-> InitializeResult(creds, initOk, loginOk, acctOk).ok]

\* __main__ (lines 282-285): bot.initialize(login=..., password=..., server=...)
MainInitialize ==
    /\ pc = "main"
    /\ \E initOk \in BOOLEAN, loginOk \in BOOLEAN, acctOk \in BOOLEAN :
          LET r == InitializeResult(TRUE, initOk, loginOk, acctOk)
          IN  /\ session' = r.session
              /\ lastInit' = InitializeCalls(TRUE, initOk, loginOk, acctOk)
              /\ pc' = IF r.ok THEN "run" ELSE "exit"
    /\ UNCHANGED <<symIdx, conditions, mgr, signals, todo, orders, fault, slept, rows, account>>

\* run (lines 248-249): self.initialize() with no credentials
RunInitialize ==
    /\ pc = "run"
    /\ \E initOk \in BOOLEAN, loginOk \in BOOLEAN, acctOk \in BOOLEAN :
          LET r == InitializeResult(FALSE, initOk, loginOk, acctOk)
          IN  /\ session' = r.session
              /\ lastInit' = InitializeCalls(FALSE, initOk, loginOk, acctOk)
              /\ pc' = IF r.ok THEN "check" ELSE "exit"
    /\ UNCHANGED <<symIdx, conditions, mgr, signals, todo, orders, fault, slept, rows, account>>

-----------------------------------------------------------------------------
(* run: the except clause (lines 268-270) *)

\* mutant: after an exception the loop takes the 5-second sleep of a normal cycle
CaughtThenPolls == "sleep"

\* mutant: the exception is not caught and ends run()
Uncaught == "crashed"

\* where control goes when an exception of the cycle reaches run()'s try statement
Caught == "backoff"

Raise(exc) ==
    /\ fault' = exc
    /\ pc' = Caught

-----------------------------------------------------------------------------
(* check_market_conditions (lines 94-113) *)

\* mutant: an undefined average counts as 0 (the frame's NaN filled with zeros)
TrendUndefinedAsZero(row) ==
    LET filled(x) == IF x = NaN THEN 0 ELSE x IN
    IF filled(row.sma20) > filled(row.sma50) /\ filled(row.sma50) > filled(row.sma200)
    THEN "uptrend"
    ELSE IF filled(row.sma20) < filled(row.sma50) /\ filled(row.sma50) < filled(row.sma200)
    THEN "downtrend"
    ELSE "sideways"

\* mutant: the chained comparisons are not strict
TrendNonStrict(row) ==
    IF ~Lt(row.sma20, row.sma50) /\ ~Lt(row.sma50, row.sma200)
       /\ NaN \notin {row.sma20, row.sma50, row.sma200} THEN "uptrend"
    ELSE IF ~Gt(row.sma20, row.sma50) /\ ~Gt(row.sma50, row.sma200)
            /\ NaN \notin {row.sma20, row.sma50, row.sma200} THEN "downtrend"
    ELSE "sideways"

\* lines 105-109: the trend label of the latest row (chained comparisons)
Trend(row) ==
    IF Gt(row.sma20, row.sma50) /\ Gt(row.sma50, row.sma200) THEN "uptrend"
    ELSE IF Lt(row.sma20, row.sma50) /\ Lt(row.sma50, row.sma200) THEN "downtrend"
    ELSE "sideways"

\* lines 104-112: the condition stored for one timeframe
Condition(row) == [trend |-> Trend(row), rsi |-> row.rsi, volatility |-> row.atr]

\* lines 98-112 for one symbol: a timeframe whose frame is None gets no entry
SymbolConditions(data) ==
    [tf \in {t \in TFSet : data[t].rates # "none"} |-> Condition(data[tf])]

\* One pass of the loop over self.symbols (line 97): the three frames of the symbol are
\* fetched and classified.  df.iloc[-1] on a frame without rows raises IndexError.
\* After the last symbol the dict is returned to run(), which goes on to manage_positions
\* (an empty dict would make run() `continue`, line 255-256).
CheckMarketConditions(env) ==
    /\ pc = "check"
    /\ LET s == Symbols[symIdx] IN
       \E df \in env.fast[s], dm \in env.other[s], ds \in env.other[s] :
          LET data == [tf \in TFSet |-> IF tf = "fast" THEN df ELSE IF tf = "medium" THEN dm ELSE ds]
              conds == [x \in DOMAIN conditions \cup {s} |->
                           IF x = s THEN SymbolConditions(data) ELSE conditions[x]]
          IN  IF \E tf \in TFSet : data[tf].rates = "empty"
              THEN /\ Raise("IndexError")
                   /\ UNCHANGED <<symIdx, conditions, rows>>
              ELSE /\ conditions' = conds
                   /\ rows' = [x \in DOMAIN rows \cup {s} |-> IF x = s THEN data ELSE rows[x]]
                   /\ fault' = fault
                   /\ IF symIdx < Len(Symbols)
                      THEN symIdx' = symIdx + 1 /\ pc' = "check"
                      ELSE symIdx' = 1 /\ pc' = IF DOMAIN conds = {} THEN "check" ELSE "manage"
    /\ UNCHANGED <<session, mgr, signals, todo, orders, slept, lastInit, account>>

-----------------------------------------------------------------------------
(* manage_positions (lines 213-228) and modify_sl_tp (lines 230-244) *)

\* line 222: profit in pips from the current bid
ProfitPips(position, bid) == (bid - position.price_open) \div Point

\* line 226: the candidate stop, entry + profit_pips * 0.5 * point
NewSl(position, bid) == position.price_open + (ProfitPips(position, bid) * 5 * Point) \div 10

\* mutant: the stop is compared with >= instead of >
ShouldTrailOrEqual(position, bid) ==
    /\ (bid - position.price_open) \div Point > MinProfitPips
    /\ ~Lt(position.price_open + (((bid - position.price_open) \div Point) * 5 * Point) \div 10,
           position.sl)

\* lines 225-227: whether modify_sl_tp is called for the position
ShouldTrail(position, bid) ==
    /\ ProfitPips(position, bid) > MinProfitPips
    /\ Gt(NewSl(position, bid), position.sl)

\* lines 232-238: the request dict; building it reads self.symbol
ModifyRequest(ticket, sl, tp) ==
    [action |-> "MODIFY", position |-> ticket, sl |-> sl, tp |-> tp]

\* modify_sl_tp: the requests it hands to order_send and the exception it raises.
\* self.symbol is no attribute of the bot (__init__ sets self.symbols), so the dict
\* display raises AttributeError before order_send is called; result.retcode raises
\* AttributeError when order_send returns None.
ModifySlTp(ticket, sl, tp, reply) ==
    IF "symbol" \notin Attrs
    THEN [sent |-> <<>>, fault |-> "AttributeError"]
    ELSE [sent |-> <<[request |-> ModifyRequest(ticket, sl, tp), reply |-> reply]>>,
          fault |-> IF reply = "None" THEN "AttributeError" ELSE "none"]

\* lines 219-228 from position i of the snapshot on: the calls made to modify_sl_tp, the
\* requests that reached order_send, and the exception that ended the loop, if any.
\* symbol_info_tick(...).bid raises AttributeError when the tick is None.
RECURSIVE ManageFrom(_, _, _, _)
ManageFrom(list, i, ticks, reply) ==
    IF i > Len(list) THEN [mods |-> <<>>, sent |-> <<>>, fault |-> "none"]
    ELSE LET position == list[i]
             tick == ticks[position.symbol]
         IN  IF ~tick.present THEN [mods |-> <<>>, sent |-> <<>>, fault |-> "AttributeError"]
             ELSE IF ~ShouldTrail(position, tick.bid) THEN ManageFrom(list, i + 1, ticks, reply)
             ELSE LET new_sl == NewSl(position, tick.bid)
                      call == [ticket |-> position.ticket, sl |-> new_sl, tp |-> position.tp]
                      m == ModifySlTp(position.ticket, new_sl, position.tp, reply)
                      rest == ManageFrom(list, i + 1, ticks, reply)
                  IN  IF m.fault # "none"
                      THEN [mods |-> <<call>>, sent |-> m.sent, fault |-> m.fault]
                      ELSE [mods |-> <<call>> \o rest.mods, sent |-> m.sent \o rest.sent,
                            fault |-> rest.fault]

\* run() line 259: the whole call.  positions_get() returning None ends it at once.
\* One tick per symbol is drawn for the call (the reads of lines 221-226 follow each other
\* at once).
ManagePositions(env) ==
    /\ pc = "manage"
    /\ \E snapshot \in env.snapshots \cup {Positions(account)}, ticks \in [SymSet -> env.ticks], reply \in Replies :
          LET r == IF snapshot.present THEN ManageFrom(snapshot.list, 1, ticks, reply)
                   ELSE [mods |-> <<>>, sent |-> <<>>, fault |-> "none"]
          IN  /\ mgr' = [called |-> TRUE, snapshot |-> snapshot, ticks |-> ticks, mods |-> r.mods,
                          raised |-> r.fault]
              /\ orders' = orders \o r.sent
              /\ IF r.fault # "none" THEN Raise(r.fault)
                 ELSE pc' = "signals" /\ fault' = fault
    /\ UNCHANGED <<session, symIdx, conditions, signals, todo, slept, rows, lastInit, account>>

-----------------------------------------------------------------------------
(* get_entry_signals (lines 115-135) *)

\* lines 120-124: all(...) or all(...) over the timeframes present in the dict
TrendAlignment(condition) ==
    \/ \A tf \in DOMAIN condition : condition[tf].trend = "uptrend"
    \/ \A tf \in DOMAIN condition : condition[tf].trend = "downtrend"

\* lines 130, 133: 30 < fast_rsi < 70
RsiInBand(fast_rsi) == Lt(RsiLow, fast_rsi) /\ Lt(fast_rsi, RsiHigh)

\* lines 126-134 for one symbol: the order type put into signals, "none" when nothing is
\* put, "KeyError" when condition['fast'] is read and the fast timeframe has no entry
SignalOf(condition) ==
    IF ~TrendAlignment(condition) THEN "none"
    ELSE IF "fast" \notin DOMAIN condition THEN "KeyError"
    ELSE IF condition["fast"].trend = "uptrend"
         THEN IF RsiInBand(condition["fast"].rsi) THEN ORDER_TYPE_BUY ELSE "none"
         ELSE IF RsiInBand(condition["fast"].rsi) THEN ORDER_TYPE_SELL ELSE "none"

\* the loop of line 118 from symbol i on, in the dict's insertion order (the order of
\* self.symbols): the signals dict built, and the exception that ended the loop, if any
RECURSIVE EntrySignalsFrom(_, _, _)
EntrySignalsFrom(conds, i, acc) ==
    IF i > Len(Symbols) THEN [signals |-> acc, fault |-> "none"]
    ELSE LET s == Symbols[i]
             sig == IF s \in DOMAIN conds THEN SignalOf(conds[s]) ELSE "none"
         IN  IF sig = "KeyError" THEN [signals |-> acc, fault |-> "KeyError"]
             ELSE IF sig = "none" THEN EntrySignalsFrom(conds, i + 1, acc)
             ELSE EntrySignalsFrom(conds, i + 1,
                      [x \in DOMAIN acc \cup {s} |-> IF x = s THEN sig ELSE acc[x]])

GetEntrySignalsResult(conds) == EntrySignalsFrom(conds, 1, [s \in {} |-> 0])

\* the keys of a signals dict in insertion order
RECURSIVE KeysFrom(_, _)
KeysFrom(sigs, i) ==
    IF i > Len(Symbols) THEN <<>>
    ELSE (IF Symbols[i] \in DOMAIN sigs THEN <<Symbols[i]>> ELSE <<>>) \o KeysFrom(sigs, i + 1)

\* run() lines 262-263: the call, and the start of the loop over signals.items()
GetEntrySignals ==
    /\ pc = "signals"
    /\ LET r == GetEntrySignalsResult(conditions) IN
          IF r.fault # "none"
          THEN /\ Raise(r.fault)
               /\ UNCHANGED <<signals, todo>>
          ELSE /\ signals' = r.signals
               /\ todo' = KeysFrom(r.signals, 1)
               /\ fault' = fault
               /\ pc' = IF DOMAIN r.signals = {} THEN "sleep" ELSE "trade"
    /\ UNCHANGED <<session, symIdx, conditions, mgr, orders, slept, rows, lastInit, account>>

-----------------------------------------------------------------------------
(* calculate_position_size (lines 137-150), calculate_sl_tp (lines 152-164),
   place_trade (lines 166-211) *)

RECURSIVE Pow10(_)
Pow10(k) == IF k <= 0 THEN 1 ELSE 10 * Pow10(k - 1)

\* line 144: trade_tick_value * 10 ** (digits - 4), for digits >= 4
PipValue(symbol_info) == symbol_info.trade_tick_value * Pow10(symbol_info.digits - 4)

\* lines 145-149: round(risk_amount / (stop_loss_pips * pip_value), 2), in hundredths of
\* a lot.  stop_loss_pips is a numpy float in place_trade, so a zero divisor yields inf
\* (nan for 0/0) and no ZeroDivisionError.
RawPositionSize(balance, stop_loss_pips, pip_value) ==
    IF IsNaN(stop_loss_pips) THEN NaN
    ELSE LET num == balance * risk_percentage
             den == stop_loss_pips * pip_value
         IN  IF den = 0 THEN (IF num = 0 THEN NaN ELSE Inf)
             ELSE RoundHalfEven(num, den)

\* calculate_position_size: the volume returned, in hundredths of a lot
CalculatePositionSize(account_info, symbol_info, stop_loss_pips) ==
    IF ~account_info.present THEN FallbackLot
    ELSE LET position_size == RawPositionSize(account_info.balance, stop_loss_pips,
                                              PipValue(symbol_info))
         IN  PyMax(PyMin(position_size, symbol_info.volume_max), symbol_info.volume_min)

\* mutant: a sell gets the levels of a buy
CalculateSlTpBuyOnly(order_type, entry_price, atr) ==
    <<Sub(entry_price, MulTenths(atr, sl_multiplier)),
      Add(entry_price, MulTenths(atr, tp_multiplier))>>

\* calculate_sl_tp: <<sl, tp>>
CalculateSlTp(order_type, entry_price, atr) ==
    IF order_type = ORDER_TYPE_BUY
    THEN <<Sub(entry_price, MulTenths(atr, sl_multiplier)),
           Add(entry_price, MulTenths(atr, tp_multiplier))>>
    ELSE <<Add(entry_price, MulTenths(atr, sl_multiplier)),
           Sub(entry_price, MulTenths(atr, tp_multiplier))>>

\* lines 174-177: the entry price
EntryPrice(order_type, symbol_info) ==
    IF order_type = ORDER_TYPE_BUY THEN symbol_info.ask ELSE symbol_info.bid

\* line 187: abs(price - sl) / point
SlPips(price, sl) ==
    LET d == Abs(Sub(price, sl)) IN IF IsNaN(d) THEN NaN ELSE d \div Point

\* lines 173-203: the request dict built for a symbol
TradeRequest(symbol, order_type, condition, symbol_info, account_info) ==
    LET price == EntryPrice(order_type, symbol_info)
        sltp == CalculateSlTp(order_type, price, condition["fast"].volatility)
        position_size == CalculatePositionSize(account_info, symbol_info,
                                               SlPips(price, sltp[1]))
    IN  [action |-> "DEAL", symbol |-> symbol, volume |-> position_size, type |-> order_type,
         price |-> price, sl |-> sltp[1], tp |-> sltp[2]]

\* The broker's side of order_send (line 205): a deal answered with DONE opens a position at
\* the request's price with its stop and target.  The account is followed up to `cap`
\* positions; a fill beyond that is not recorded.
Filled(open_positions, request, reply, cap) ==
    IF reply = TRADE_RETCODE_DONE /\ Len(open_positions) < cap
    THEN Append(open_positions,
                Position(Len(open_positions) + 1, request.symbol, request.type, request.price,
                         request.sl, request.tp))
    ELSE open_positions

\* mutant: a rejected order leaves its symbol first in line, to be submitted again
RemainingWithRetry(queue, reply) ==
    IF reply = TRADE_RETCODE_DONE THEN Tail(queue) ELSE queue

\* lines 206-211 and 263: whatever retcode order_send gave, place_trade returns and the for
\* loop goes on to the next item of signals
Remaining(queue, reply) == Tail(queue)

\* mutant: no order is submitted once max_positions positions are open
SubmitsUnderLimit(symbol_info, open_positions) ==
    symbol_info.present /\ Len(open_positions) < max_positions

\* lines 168-171: the one check place_trade makes before it builds and sends its request.
\* The open positions of the account are not consulted: self.max_positions is set at
\* line 23 and read nowhere.
Submits(symbol_info, open_positions) == symbol_info.present

\* One pass of the loop of lines 263-264: place_trade for the next symbol of signals.
\* symbol_info None: logged, no order.  order_send returning None makes result.retcode
\* raise AttributeError.  A retcode other than DONE is logged and nothing else is done.
\* The symbol_info read again at line 143 is the one read at line 168.
PlaceTrade(env) ==
    /\ pc = "trade"
    /\ todo # <<>>
    /\ LET symbol == Head(todo) IN
       \E symbol_info \in env.infos, account_info \in env.accounts, reply \in Replies :
          IF ~Submits(symbol_info, account)
          THEN /\ orders' = orders
               /\ account' = account
               /\ fault' = fault
               /\ todo' = Tail(todo)
               /\ pc' = IF Tail(todo) = <<>> THEN "sleep" ELSE "trade"
          ELSE /\ orders' = Append(orders,
                     [request |-> TradeRequest(symbol, signals[symbol], conditions[symbol],
                                               symbol_info, account_info),
                      reply |-> reply, symbol_info |-> symbol_info,
                      account_info |-> account_info])
               /\ account' = Filled(account, TradeRequest(symbol, signals[symbol],
                                         conditions[symbol], symbol_info, account_info),
                                     reply, env.followed)
               /\ IF reply = "None"
                  THEN /\ Raise("AttributeError")
                       /\ todo' = todo
                  ELSE /\ fault' = fault
                       /\ todo' = Remaining(todo, reply)
                       /\ pc' = IF Remaining(todo, reply) = <<>> THEN "sleep" ELSE "trade"
    /\ UNCHANGED <<session, symIdx, conditions, mgr, signals, slept, rows, lastInit>>

-----------------------------------------------------------------------------
(* run: the end of a cycle (lines 266, 270) *)

NewCycle ==
    /\ pc' = "check"
    /\ symIdx' = 1
    /\ conditions' = [s \in {} |-> 0]
    /\ mgr' = NoFrame
    /\ signals' = [s \in {} |-> 0]
    /\ todo' = <<>>
    /\ orders' = <<>>
    /\ fault' = "none"
    /\ rows' = [s \in {} |-> 0]
    /\ UNCHANGED <<session, lastInit, account>>

\* line 266: time.sleep(5), then the next pass of while True
Sleep ==
    /\ pc = "sleep"
    /\ slept' = 5
    /\ NewCycle

\* lines 269-270: the exception is logged, time.sleep(60), then the next pass
Backoff ==
    /\ pc = "backoff"
    /\ slept' = 60
    /\ NewCycle

-----------------------------------------------------------------------------
(* Specifications *)

Next(env) ==
    \/ MainInitialize
    \/ RunInitialize
    \/ CheckMarketConditions(env)
    \/ ManagePositions(env)
    \/ GetEntrySignals
    \/ PlaceTrade(env)
    \/ Sleep
    \/ Backoff

(* Environment envelopes: what the MetaTrader5 calls may return in each specification *)

MaxSnapshot == 2

\* latest rows: aligned up, aligned down, flat averages; RSI 50; ATR of 2 points
RowUp == Row(3, 2, 1, 50, 4)
RowDown == Row(1, 2, 3, 50, 4)
RowFlat == Row(2, 2, 2, 50, 4)
\* an uptrend row whose last 14 true ranges are all zero
RowZeroAtr == Row(3, 2, 1, 50, 0)

\* a quote of 500/501 points, tick value 1 on 5 digits, volumes 0.01 .. 0.50
InfoStd == Info(1000, 1002, 1, 5, 1, 50)

\* open positions entered at 500 points: stop below entry, at 550 and at 575 points
PositionKinds ==
    {[symbol |-> s, type |-> ty, price_open |-> 1000, sl |-> stop,
      tp |-> IF ty = ORDER_TYPE_BUY THEN 1400 ELSE 600] :
        s \in SymSet, ty \in {ORDER_TYPE_BUY, ORDER_TYPE_SELL}, stop \in {900, 1100, 1150}}

\* the tuples positions_get() may return: up to n positions, tickets 1..n
SnapshotsUpTo(n) ==
    UNION {{Positions([i \in 1..k |->
                Position(i, f[i].symbol, f[i].type, f[i].price_open, f[i].sl, f[i].tp)]) :
              f \in [1..k -> PositionKinds]} : k \in 0..n}

\* Spec: every data outcome on both symbols, one standard quote, a small account
EnvLoop ==
    [fast |-> [s \in SymSet |-> {NoRates, EmptyRates, RowUp, RowDown, RowZeroAtr}],
     other |-> [s \in SymSet |-> {NoRates, RowUp, RowDown}],
     snapshots |-> {NoPositions, Positions(<<>>),
                    Positions(<<Position(1, Symbols[1], ORDER_TYPE_BUY, 1000, 900, 1400)>>)},
     ticks |-> {NoTick, Tick(1200)},
     infos |-> {NoInfo, InfoStd},
     accounts |-> {NoAccount, Account(1000)},
     followed |-> 0]

\* SpecManage: every snapshot of up to MaxSnapshot positions against bids at 50, 100 and
\* 150 pips above entry; the first symbol aligned up, the second not aligned
EnvManage ==
    [fast |-> [s \in SymSet |-> IF s = Symbols[1] THEN {RowUp} ELSE {RowDown}],
     other |-> [s \in SymSet |-> {RowUp}],
     snapshots |-> {NoPositions} \cup SnapshotsUpTo(MaxSnapshot),
     ticks |-> {NoTick, Tick(1100), Tick(1200), Tick(1300)},
     infos |-> {InfoStd},
     accounts |-> {Account(1000)},
     followed |-> 0]

Spec == Init /\ [][Next(EnvLoop)]_vars
SpecManage == Init /\ [][Next(EnvManage)]_vars

\* SpecSignals: on the first symbol every trend label on every timeframe, any timeframe
\* missing, and the fast RSI below, at, inside, and above the band, and undefined
EnvSignals ==
    [fast |-> [s \in SymSet |->
                 IF s = Symbols[1]
                 THEN {NoRates} \cup
                      {Row(t[1], t[2], t[3], r, 4) :
                          t \in {<<3, 2, 1>>, <<1, 2, 3>>, <<2, 2, 2>>},
                          r \in {25, 30, 55, 70, 75, NaN}}
                 ELSE {RowUp}],
     other |-> [s \in SymSet |->
                 IF s = Symbols[1] THEN {NoRates, RowUp, RowDown, RowFlat} ELSE {RowUp}],
     snapshots |-> {Positions(<<>>)},
     ticks |-> {Tick(1200)},
     infos |-> {InfoStd},
     accounts |-> {Account(1000)},
     followed |-> 0]

\* SpecSizer: zero and positive ATR against tick values 0 and 1, minimum volumes 0.01 and
\* 0.10, and no account, a small and a large one
EnvSizer ==
    [fast |-> [s \in SymSet |-> IF s = Symbols[1] THEN {RowUp, RowDown, RowZeroAtr} ELSE {RowFlat}],
     other |-> [s \in SymSet |-> {RowUp, RowDown}],
     snapshots |-> {Positions(<<>>)},
     ticks |-> {Tick(1200)},
     infos |-> {NoInfo} \cup {Info(1000, 1002, tv, 5, vmin, 50) : tv \in {0, 1}, vmin \in {1, 10}},
     accounts |-> {NoAccount, Account(1000), Account(100000)},
     followed |-> 0]

SpecSignals == Init /\ [][Next(EnvSignals)]_vars
SpecSizer == Init /\ [][Next(EnvSizer)]_vars

\* FairSpec: every kind of fault of a cycle (no rows, a missing fast timeframe, no tick,
\* the stop modification, no order result) on uptrend data
EnvFair ==
    [fast |-> [s \in SymSet |-> {NoRates, EmptyRates, RowUp}],
     other |-> [s \in SymSet |-> {NoRates, RowUp}],
     snapshots |-> EnvLoop.snapshots,
     ticks |-> EnvLoop.ticks,
     infos |-> EnvLoop.infos,
     accounts |-> {Account(1000)},
     followed |-> 0]

\* SpecTrend: on the fast timeframe of the first symbol every ordering of the three averages
\* over three levels, ties included, and each average undefined (fewer bars than its
\* window); on the other timeframes aligned rows, a tie, an undefined 200-bar average and
\* no data; the fast RSI defined and undefined
SmaLevels == {1, 2, 3, NaN}
RowTie == Row(2, 2, 1, 50, 4)
RowShort == Row(3, 2, NaN, 50, 4)
EnvTrend ==
    [fast |-> [s \in SymSet |->
                 IF s = Symbols[1]
                 THEN {Row(a, b, c, 50, 4) : a \in SmaLevels, b \in SmaLevels, c \in SmaLevels}
                      \cup {Row(3, 2, 1, NaN, 4), Row(1, 2, 3, NaN, 4)}
                 ELSE {RowUp}],
     other |-> [s \in SymSet |->
                 IF s = Symbols[1] THEN {NoRates, RowUp, RowDown, RowTie, RowShort}
                 ELSE {RowUp}],
     snapshots |-> {Positions(<<>>)},
     ticks |-> {Tick(1200)},
     infos |-> {InfoStd},
     accounts |-> {Account(1000)},
     followed |-> 0]

SpecTrend == Init /\ [][Next(EnvTrend)]_vars

\* SpecHold: the account keeps the positions the program's filled orders open, up to MaxOpen
\* of them, and positions_get() returns them; the first symbol stays aligned up, the second
\* is aligned or flat; the bid is below the entries or 99 pips above them
MaxOpen == 4
EnvHold ==
    [fast |-> [s \in SymSet |-> IF s = Symbols[1] THEN {RowUp} ELSE {RowUp, RowFlat}],
     other |-> [s \in SymSet |-> {RowUp}],
     snapshots |-> {},
     ticks |-> {Tick(1000), Tick(1200)},
     infos |-> {InfoStd},
     accounts |-> {Account(1000)},
     followed |-> MaxOpen]

SpecHold == Init /\ [][Next(EnvHold)]_vars

\* the steps of the program are taken as long as the external calls return
FairSpec == Init /\ [][Next(EnvFair)]_vars /\ WF_vars(Next(EnvFair))

-----------------------------------------------------------------------------
(* Properties *)

\* the deal requests that reached order_send in this cycle
Deals == {i \in 1..Len(orders) : orders[i].request.action = "DEAL"}
\* the stop modifications that reached order_send in this cycle
Modifications == {i \in 1..Len(orders) : orders[i].request.action = "MODIFY"}
\* the positions of the snapshot manage_positions read
Managed == IF mgr.called /\ mgr.snapshot.present THEN 1..Len(mgr.snapshot.list) ELSE {}
ManagedPosition(i) == mgr.snapshot.list[i]
ManagedBid(i) == mgr.ticks[ManagedPosition(i).symbol].bid
\* the calls manage_positions made to modify_sl_tp for the position with ticket i
CallsFor(i) == {k \in 1..Len(mgr.mods) : mgr.mods[k].ticket = ManagedPosition(i).ticket}

\* C1: every stop manage_positions requests is strictly more favourable than the
\* position's current stop: higher for a long position, lower for a short one.
C1_NeverLoosens ==
    \A i \in Managed : \A k \in CallsFor(i) :
        /\ ManagedPosition(i).type = ORDER_TYPE_BUY => mgr.mods[k].sl > ManagedPosition(i).sl
        /\ ManagedPosition(i).type = ORDER_TYPE_SELL => mgr.mods[k].sl < ManagedPosition(i).sl

\* C2: for every open position more than 50 pips in profit on the bid whose candidate stop
\* entry + profit_pips * 0.5 * point is above its stop, a modification for its ticket with
\* the candidate stop and the unchanged take-profit reaches order_send.
C2_ModificationReachesOrderSend ==
    \A i \in Managed :
        LET p == ManagedPosition(i) IN
        (/\ \A j \in Managed : mgr.ticks[ManagedPosition(j).symbol].present
         /\ ManagedBid(i) - p.price_open > 50 * Point
         /\ 2 * p.price_open + (ManagedBid(i) - p.price_open) > 2 * p.sl)
        => \E m \in Modifications :
              /\ orders[m].request.position = p.ticket
              /\ 2 * orders[m].request.sl = 2 * p.price_open + (ManagedBid(i) - p.price_open)
              /\ orders[m].request.tp = p.tp

\* C3: a position whose stop already equals the candidate computed for the current quote
\* gets no modification request from manage_positions, in any cycle.
C3_NoFurtherModification ==
    \A i \in Managed :
        LET p == ManagedPosition(i) IN
        (/\ mgr.ticks[p.symbol].present
         /\ 2 * p.sl = 2 * p.price_open + (ManagedBid(i) - p.price_open))
        => CallsFor(i) = {}

\* C3 witness: manage_positions has run to its end over a position more than 50 pips in
\* profit whose stop equals the candidate, and has made no call for it
C3_Witness ==
    /\ pc = "signals"
    /\ \E i \in Managed :
          LET p == ManagedPosition(i) IN
          /\ ManagedBid(i) - p.price_open > 50 * Point
          /\ 2 * p.sl = 2 * p.price_open + (ManagedBid(i) - p.price_open)
          /\ CallsFor(i) = {}

\* the signals dict of this cycle has been returned by get_entry_signals
SignalsReturned == pc \in {"trade", "sleep"}
HasSignal(s, order_type) == s \in DOMAIN signals /\ signals[s] = order_type
\* every tracked timeframe of the symbol reports the label
AllReport(s, label) ==
    \A tf \in TFSet : tf \in DOMAIN conditions[s] /\ conditions[s][tf].trend = label
FastRsiInBand(s) ==
    /\ "fast" \in DOMAIN conditions[s]
    /\ conditions[s]["fast"].rsi # NaN
    /\ 30 < conditions[s]["fast"].rsi
    /\ conditions[s]["fast"].rsi < 70

\* C4: get_entry_signals emits BUY for an instrument exactly when fast, medium and slow
\* all report uptrend and 30 < fast RSI < 70, SELL exactly when all three report
\* downtrend and 30 < fast RSI < 70, and nothing in every other case.
C4_SignalIffAllTimeframesAligned ==
    SignalsReturned =>
        \A s \in SymSet :
            /\ HasSignal(s, ORDER_TYPE_BUY) <=> (AllReport(s, "uptrend") /\ FastRsiInBand(s))
            /\ HasSignal(s, ORDER_TYPE_SELL) <=> (AllReport(s, "downtrend") /\ FastRsiInBand(s))

\* the fetch returned nothing for the symbol on at least one timeframe in this cycle
MissingData(s) == s \in DOMAIN conditions /\ DOMAIN conditions[s] # TFSet

\* C5: an instrument with missing data on some timeframe is only skipped: no signal and no
\* order is produced for it and the missing data raises no loop-level fault.
C5_MissingDataOnlySkipsInstrument ==
    \A s \in SymSet :
        MissingData(s) =>
            /\ s \notin DOMAIN signals
            /\ \A i \in Deals : orders[i].request.symbol # s
            /\ fault # "KeyError"

\* the ATR place_trade used for a deal
DealAtr(i) == conditions[orders[i].request.symbol]["fast"].volatility

\* C7: when the stop distance in pips or the pip value is <= 0, calculate_position_size
\* returns the instrument's volume_min (stated for the calls made with account
\* information available, whose result is the volume of the request).
C7_SizerFailsClosed ==
    \A i \in Deals :
        LET o == orders[i] IN
        (/\ o.account_info.present
         /\ \/ o.request.price = o.request.sl
            \/ o.symbol_info.trade_tick_value <= 0)
        => o.request.volume = o.symbol_info.volume_min

C9_OrderLevels ==
    \A i \in Deals :
        LET r == orders[i].request
            atr == DealAtr(i)
        IN  /\ r.type = ORDER_TYPE_BUY => r.price = orders[i].symbol_info.ask
            /\ r.type = ORDER_TYPE_SELL => r.price = orders[i].symbol_info.bid
            /\ (atr # NaN /\ r.type = ORDER_TYPE_BUY) =>
                  /\ 10 * (r.price - r.sl) = 15 * atr
                  /\ 10 * (r.tp - r.price) = 25 * atr
                  /\ atr > 0 => (r.sl < r.price /\ r.price < r.tp)
            /\ (atr # NaN /\ r.type = ORDER_TYPE_SELL) =>
                  /\ 10 * (r.sl - r.price) = 15 * atr
                  /\ 10 * (r.price - r.tp) = 25 * atr
                  /\ atr > 0 => (r.tp < r.price /\ r.price < r.sl)

\* C9 witness: a buy and a sell with a positive ATR have both reached order_send
C9_Witness ==
    /\ \E i \in Deals : orders[i].request.type = ORDER_TYPE_BUY /\ DealAtr(i) > 0
    /\ \E i \in Deals : orders[i].request.type = ORDER_TYPE_SELL /\ DealAtr(i) > 0

\* C10: the volume of every order place_trade submits lies in [volume_min, volume_max]
\* of the instrument, also when the account information is unavailable.
C10_VolumeWithinLimits ==
    \A i \in Deals :
        LET o == orders[i] IN
        /\ o.request.volume # NaN
        /\ o.symbol_info.volume_min <= o.request.volume
        /\ o.request.volume <= o.symbol_info.volume_max

\* the loop's two states
Evaluating == pc \in {"check", "manage", "signals", "trade"}
Idle == pc \in {"sleep", "backoff"}

\* C6: a fault raised during a cycle is caught (control is in the except clause, the loop
\* has not ended), the loop then sleeps the 60 s backoff and starts a new cycle, and every
\* Evaluating state is eventually followed by Idle.
C6_FaultsCaughtLoopContinues ==
    /\ [](fault # "none" => pc = "backoff")
    /\ [][pc = "backoff" => (pc' = "check" /\ slept' = 60 /\ fault' = "none")]_vars
    /\ [](pc \in {"check", "manage", "signals", "trade", "sleep", "backoff"}
            => [](pc \notin {"exit", "crashed"}))
    /\ (Evaluating ~> Idle)

\* C6 witness: a fault of the cycle has been caught
C6_Witness == fault # "none" /\ pc = "backoff"

-----------------------------------------------------------------------------
\* the three averages of the row classified for timeframe tf of symbol s are all defined
SmasDefined(s, tf) ==
    /\ rows[s][tf].sma20 # NaN
    /\ rows[s][tf].sma50 # NaN
    /\ rows[s][tf].sma200 # NaN
NestedAbove(s, tf) ==
    /\ SmasDefined(s, tf)
    /\ rows[s][tf].sma20 > rows[s][tf].sma50
    /\ rows[s][tf].sma50 > rows[s][tf].sma200
NestedBelow(s, tf) ==
    /\ SmasDefined(s, tf)
    /\ rows[s][tf].sma20 < rows[s][tf].sma50
    /\ rows[s][tf].sma50 < rows[s][tf].sma200

\* C11: a timeframe is labelled uptrend exactly when SMA20 > SMA50 > SMA200, downtrend
\* exactly when SMA20 < SMA50 < SMA200, and sideways in every other case, which includes
\* every case in which two of the averages are equal.
C11_TrendIsStrictNestedComparison ==
    \A s \in DOMAIN conditions : \A tf \in DOMAIN conditions[s] :
        /\ conditions[s][tf].trend = "uptrend" <=> NestedAbove(s, tf)
        /\ conditions[s][tf].trend = "downtrend" <=> NestedBelow(s, tf)
        /\ conditions[s][tf].trend = "sideways" <=>
              (~NestedAbove(s, tf) /\ ~NestedBelow(s, tf))

\* the fast timeframe of the first symbol was classified on a row whose 20- and 50-bar
\* averages are equal and above the 200-bar average, and was labelled sideways
C11_Witness ==
    /\ Symbols[1] \in DOMAIN conditions
    /\ "fast" \in DOMAIN conditions[Symbols[1]]
    /\ rows[Symbols[1]]["fast"].sma20 = rows[Symbols[1]]["fast"].sma50
    /\ rows[Symbols[1]]["fast"].sma50 > rows[Symbols[1]]["fast"].sma200
    /\ SmasDefined(Symbols[1], "fast")
    /\ conditions[Symbols[1]]["fast"].trend = "sideways"

-----------------------------------------------------------------------------
\* some timeframe of symbol s that gave data has an undefined average, or the RSI of its
\* fast timeframe is undefined
UndefinedIndicator(s) ==
    /\ s \in DOMAIN conditions
    /\ \/ \E tf \in DOMAIN conditions[s] : ~SmasDefined(s, tf)
       \/ "fast" \in DOMAIN conditions[s] /\ rows[s]["fast"].rsi = NaN

\* C12: an instrument with an undefined moving average on a timeframe, or an undefined
\* fast RSI, gets no signal and no order in that cycle.
C12_UndefinedIndicatorsNeverTrade ==
    \A s \in SymSet :
        UndefinedIndicator(s) =>
            /\ s \notin DOMAIN signals
            /\ \A i \in Deals : orders[i].request.symbol # s

\* a finished cycle in which the first symbol's fast and medium timeframes are uptrends and
\* its slow timeframe has no 200-bar average yet, and an order went out for another symbol
C12_Witness ==
    /\ pc = "sleep"
    /\ Symbols[1] \in DOMAIN conditions
    /\ DOMAIN conditions[Symbols[1]] = TFSet
    /\ conditions[Symbols[1]]["fast"].trend = "uptrend"
    /\ conditions[Symbols[1]]["medium"].trend = "uptrend"
    /\ rows[Symbols[1]]["slow"].sma200 = NaN
    /\ rows[Symbols[1]]["slow"].sma20 > rows[Symbols[1]]["slow"].sma50
    /\ RsiInBand(conditions[Symbols[1]]["fast"].rsi)
    /\ \E i \in Deals : orders[i].request.symbol = Symbols[2]

-----------------------------------------------------------------------------
\* the entry orders submitted for symbol s in this cycle
DealsFor(s) == {i \in Deals : orders[i].request.symbol = s}

\* C13: at most one entry order is submitted per instrument in a cycle, and an order
\* answered with a retcode other than DONE is followed by no other order for that
\* instrument in the cycle.
C13_OneSubmissionPerInstrument ==
    \A s \in SymSet :
        /\ Cardinality(DealsFor(s)) <= 1
        /\ \A i \in DealsFor(s) :
              orders[i].reply # TRADE_RETCODE_DONE => \A j \in DealsFor(s) : j <= i

\* a finished cycle in which the first symbol's order was rejected and the loop went on to
\* submit the second symbol's order
C13_Witness ==
    /\ pc = "sleep"
    /\ \E i \in DealsFor(Symbols[1]) : orders[i].reply = "REJECTED"
    /\ DealsFor(Symbols[2]) # {}

-----------------------------------------------------------------------------
\* the last initialize() could not establish the connection
ConnectionFailed ==
    \/ lastInit.initialize = "failed"
    \/ lastInit.login = "refused"
    \/ lastInit.account_info = "none"
\* nothing of a cycle has been done: no data fetched, no position managed, no order sent
NothingDone ==
    /\ DOMAIN conditions = {}
    /\ DOMAIN rows = {}
    /\ ~mgr.called
    /\ DOMAIN signals = {}
    /\ orders = <<>>

\* C14: when the platform initialisation fails, the login is refused or the account
\* information is unavailable, initialize returns False and the program ends without
\* entering the loop: no market data is fetched, no position managed, no order submitted.
C14_ConnectionFailureIsFatal ==
    ConnectionFailed =>
        /\ ~lastInit.returned
        /\ pc = "exit"
        /\ NothingDone

\* run()'s own initialize() found no account information, and run() returned
C14_Witness ==
    /\ pc = "exit"
    /\ lastInit.login = "skipped"
    /\ lastInit.account_info = "none"
    /\ ~lastInit.returned

-----------------------------------------------------------------------------
\* run() is inside its while loop
InLoop == pc \in {"check", "manage", "signals", "trade", "sleep", "backoff"}

\* C15: started through the entry point with credentials, the loop runs on the session
\* that was opened with those credentials: run() neither shuts it down nor replaces it with
\* a connection opened without login.
C15_LoopKeepsAuthenticatedSession ==
    InLoop => session = "login"

-----------------------------------------------------------------------------
\* this cycle's manage_positions call ended with an exception
ManageRaised == mgr.called /\ mgr.raised # "none"
\* this cycle's manage_positions call has returned normally
ManageFinished == mgr.called /\ mgr.raised = "none"
\* signal evaluation has produced something in this cycle: a signal or an entry order
EntryStarted == DOMAIN signals # {} \/ Deals # {}

\* within a cycle: all symbols are classified before positions are managed, positions are
\* managed before signals are evaluated, and a cycle whose manage step raised is waiting
\* for the backoff with no signal evaluated and no entry order submitted
CycleOrder ==
    /\ (pc = "manage" \/ mgr.called) => DOMAIN conditions = SymSet
    /\ (pc \in {"signals", "trade", "sleep"} \/ EntryStarted) => ManageFinished
    /\ ManageRaised => (pc = "backoff" /\ ~EntryStarted)
\* the step taken after the manage step raised is the 60-second backoff that starts the
\* next cycle
BackoffAfterManageFault ==
    ManageRaised => (slept' = 60 /\ pc' = "check" /\ orders' = <<>>)

\* C16: every cycle classifies all instruments, then manages open positions, then
\* evaluates signals and submits orders; no entry order is submitted before position
\* management has finished, and when position management raises, no entry order is
\* submitted in that cycle and the next cycle starts after the 60-second backoff.
C16_ClassifyManageThenTrade ==
    []CycleOrder /\ [][BackoffAfterManageFault]_vars

\* position management has raised in a cycle in which the first symbol is aligned up on
\* all timeframes with its RSI in the band
C16_Witness ==
    /\ ManageRaised
    /\ pc = "backoff"
    /\ Symbols[1] \in DOMAIN conditions
    /\ DOMAIN conditions[Symbols[1]] = TFSet
    /\ AllReport(Symbols[1], "uptrend")
    /\ RsiInBand(conditions[Symbols[1]]["fast"].rsi)

-----------------------------------------------------------------------------
\* the open positions of the account on symbol s
OpenOn(s) == {k \in 1..Len(account) : account[k].symbol = s}

\* C17: the position limit is not enforced.  At the end of a cycle an entry order has been
\* submitted for exactly the symbols that have a signal, however many positions are open.
C17_SubmissionDependsOnlyOnSignal ==
    pc = "sleep" =>
        \A s \in SymSet : s \in DOMAIN signals <=> DealsFor(s) # {}

\* more than max_positions positions are open, several of them on the first symbol, at the
\* end of a cycle that submitted yet another entry order
C17_Witness ==
    /\ pc = "sleep"
    /\ Len(account) > max_positions
    /\ Cardinality(OpenOn(Symbols[1])) >= 2
    /\ DealsFor(Symbols[1]) # {}

=============================================================================
